---- MODULE Spec2Model ----
(***************************************************************************)
(* Plant state engine of the Digital Plant Growth & Care System API        *)
(* (src/main.py): stat decay, health scoring, growth / stage derivation,   *)
(* care-action dispatch, sensor ingest and the batch growth tick, together *)
(* with the two collections they write (userplants, users) and the sensor  *)
(* audit collection.                                                       *)
(*                                                                         *)
(* Numbers.  Stats are Python ints.  A sensor's moisture is a float; it is *)
(* carried here in tenths of a unit (375 is 37.5), light is a whole number *)
(* of lux.  An absent optional field (None) is the empty sequence, a       *)
(* present one a one-element sequence.  datetime.now() is the logical      *)
(* clock; a date that is None is NoDate.                                   *)
(***************************************************************************)
EXTENDS Integers, Sequences, FiniteSets, TLC

(* ------------------------------ bounds -------------------------------- *)
\* number of requests served in one behaviour of Spec
MaxOps == 3
\* number of growth ticks served in one behaviour of SpecDecay
MaxTicks == 52
\* number of requests begun in one behaviour of SpecRace
MaxRequests == 2

(* --------------------------- the collections --------------------------- *)
Users == {"u1", "u2"}
Plants == {"p1", "p2"}
\* a plant id that resolves to no document
NoSuchPlant == "p0"

Null == << >>
NoDate == 0

\* seed_templates: ideal_moisture / ideal_light of two of the seeded species
TemplateDoc(t) ==
    IF t = "Rose" THEN [ideal_moisture |-> 60, ideal_light |-> 70]
                  ELSE [ideal_moisture |-> 30, ideal_light |-> 80]

\* the owner / template references written by create_user_plant
OwnerOf(i) == IF i = "p2" THEN "u2" ELSE "u1"
TemplateOf(i) == IF i = "p2" THEN "Aloe" ELSE "Rose"

(* ------------------------------ inputs -------------------------------- *)
KnownTypes == {"water", "fertilize", "sunlight_add", "trim", "repot"}
ActionTypes == KnownTypes \cup {"prune"}
\* sensor packets <<moisture, light>>: moisture in tenths (-5.0, 37.5, 60.0,
\* 130.0), light in lux (-20, 290, 300, 500, 1500)
Readings ==
    { <<Null, Null>>, <<Null, <<290>> >>, << <<375>>, <<300>> >>,
      << <<600>>, <<500>> >>, << <<1300>>, <<-20>> >>, << <<-50>>, <<1500>> >> }
\* growth_points the plants hold when the behaviour starts: p1 is freshly
\* adopted and p2 is 10 short of juvenile, or p1 is 10 short of sprout and
\* p2 is 10 short of mature
StartGP == { [p1 |-> 0, p2 |-> 240], [p1 |-> 90, p2 |-> 490] }

VARIABLES plants, xp, sensordata, clock, last, inflight

vars == <<plants, xp, sensordata, clock, last, inflight>>

(* --------------------------- pure helpers ------------------------------ *)
Max(a, b) == IF a >= b THEN a ELSE b
Min(a, b) == IF a <= b THEN a ELSE b
Abs(a) == IF a >= 0 THEN a ELSE 0 - a

\* clamp that lost its lower limit
clamp_NoFloor(v) == Min(100, v)

\* clamp(v, lo=0, hi=100)
clamp(v) == Max(0, Min(100, v))

\* int(s * 0.95) where the code has round(s * 0.95)
Round95_Truncated(s) == (95 * s) \div 100

\* round(s * 0.95) for an int s >= 0: the double product is the exact
\* 95*s/100 whenever that is a tie (s = 10, 30, 50, 70, 90), and Python
\* rounds a tie to the even neighbour
Round95(s) ==
    LET q == (95 * s) \div 100
        r == (95 * s) % 100
    IN  IF r > 50 THEN q + 1
        ELSE IF r < 50 THEN q
        ELSE IF q % 2 = 0 THEN q ELSE q + 1

STAGE_THRESHOLDS == [seed |-> 0, sprout |-> 100, juvenile |-> 250, mature |-> 500]

\* the score rounded to the nearest whole number
compute_health_Rounded(plant, template) ==
    LET d == Abs(plant.hydration - template.ideal_moisture)
             + Abs(plant.sunlight - template.ideal_light)
             + Abs(plant.nutrition - 60)
    IN  clamp(100 - ((2 * d + 3) \div 6))

\* compute_health: int(clamp(100 - (dev_m + dev_l + dev_n) / 3.0)); the
\* truncation of 100 - d/3 for d >= 0 is 100 - ceil(d/3) while that is >= 0
compute_health(plant, template) ==
    LET dev_m == Abs(plant.hydration - template.ideal_moisture)
        dev_l == Abs(plant.sunlight - template.ideal_light)
        dev_n == Abs(plant.nutrition - 60)
        d == dev_m + dev_l + dev_n
    IN  clamp(100 - ((d + 2) \div 3))

apply_decay(plant) ==
    [plant EXCEPT !.hydration = clamp(@ - 5),
                  !.nutrition = clamp(@ - 2),
                  !.sunlight = clamp(Round95(@))]

\* the thresholds compared with > where the code has >=
StageFor_Strict(gp) ==
    IF gp > STAGE_THRESHOLDS.mature THEN "mature"
    ELSE IF gp > STAGE_THRESHOLDS.juvenile THEN "juvenile"
    ELSE IF gp > STAGE_THRESHOLDS.sprout THEN "sprout"
    ELSE "seed"

\* the thresholds compared with <= where the code has >=
StageFor_Reversed(gp) ==
    IF gp <= STAGE_THRESHOLDS.mature THEN "mature"
    ELSE IF gp <= STAGE_THRESHOLDS.juvenile THEN "juvenile"
    ELSE IF gp <= STAGE_THRESHOLDS.sprout THEN "sprout"
    ELSE "seed"

\* apply_growth, lines 227-237: the stage for the growth points
StageFor(gp) ==
    IF gp >= STAGE_THRESHOLDS.mature THEN "mature"
    ELSE IF gp >= STAGE_THRESHOLDS.juvenile THEN "juvenile"
    ELSE IF gp >= STAGE_THRESHOLDS.sprout THEN "sprout"
    ELSE "seed"

\* growth that also takes 10 points from a plant that is not healthy
apply_growth_Penalty(plant) ==
    LET gp == IF plant.health_score > 70 THEN plant.growth_points + 10
                                         ELSE plant.growth_points - 10
    IN  [plant EXCEPT !.growth_points = gp, !.stage = StageFor(gp)]

\* growth that gives a plant that is not healthy half the points
apply_growth_HalfStep(plant) ==
    LET gp == IF plant.health_score > 70 THEN plant.growth_points + 10
                                         ELSE plant.growth_points + 5
    IN  [plant EXCEPT !.growth_points = gp, !.stage = StageFor(gp)]

\* growth at health_score 70 already
apply_growth_AtSeventy(plant) ==
    LET gp == IF plant.health_score >= 70 THEN plant.growth_points + 10
                                          ELSE plant.growth_points
    IN  [plant EXCEPT !.growth_points = gp, !.stage = StageFor(gp)]

apply_growth(plant) ==
    LET gp == IF plant.health_score > 70 THEN plant.growth_points + 10
                                         ELSE plant.growth_points
    IN  [plant EXCEPT !.growth_points = gp, !.stage = StageFor(gp)]

(* ------------------------------ care ----------------------------------- *)
\* the dispatch without the final else: an unrecognized type falls through
\* to the recompute and the write with no reward
Dispatch_NoReject(plant, type) ==
    IF type = "water" THEN
        [plant |-> [plant EXCEPT !.hydration = clamp(@ + 20)], xp_reward |-> 5, ok |-> TRUE]
    ELSE IF type = "fertilize" THEN
        [plant |-> [plant EXCEPT !.nutrition = clamp(@ + 15)], xp_reward |-> 7, ok |-> TRUE]
    ELSE IF type = "sunlight_add" THEN
        [plant |-> [plant EXCEPT !.sunlight = clamp(@ + 10)], xp_reward |-> 4, ok |-> TRUE]
    ELSE IF type = "trim" THEN
        [plant |-> [plant EXCEPT !.health_score = clamp(@ + 5)], xp_reward |-> 6, ok |-> TRUE]
    ELSE IF type = "repot" THEN
        [plant |-> [plant EXCEPT !.health_score = clamp(@ + 10)], xp_reward |-> 10, ok |-> TRUE]
    ELSE
        [plant |-> plant, xp_reward |-> 0, ok |-> TRUE]

\* the dispatch with the rewards of trim and repot exchanged
Dispatch_SwappedReward(plant, type) ==
    IF type = "water" THEN
        [plant |-> [plant EXCEPT !.hydration = clamp(@ + 20)], xp_reward |-> 5, ok |-> TRUE]
    ELSE IF type = "fertilize" THEN
        [plant |-> [plant EXCEPT !.nutrition = clamp(@ + 15)], xp_reward |-> 7, ok |-> TRUE]
    ELSE IF type = "sunlight_add" THEN
        [plant |-> [plant EXCEPT !.sunlight = clamp(@ + 10)], xp_reward |-> 4, ok |-> TRUE]
    ELSE IF type = "trim" THEN
        [plant |-> [plant EXCEPT !.health_score = clamp(@ + 5)], xp_reward |-> 10, ok |-> TRUE]
    ELSE IF type = "repot" THEN
        [plant |-> [plant EXCEPT !.health_score = clamp(@ + 10)], xp_reward |-> 6, ok |-> TRUE]
    ELSE
        [plant |-> plant, xp_reward |-> 0, ok |-> FALSE]

\* care_action, lines 297-314: the branch taken for the action type, on the
\* in-memory copy; ok is FALSE where the handler returns the 400 response
Dispatch(plant, type) ==
    IF type = "water" THEN
        [plant |-> [plant EXCEPT !.hydration = clamp(@ + 20)], xp_reward |-> 5, ok |-> TRUE]
    ELSE IF type = "fertilize" THEN
        [plant |-> [plant EXCEPT !.nutrition = clamp(@ + 15)], xp_reward |-> 7, ok |-> TRUE]
    ELSE IF type = "sunlight_add" THEN
        [plant |-> [plant EXCEPT !.sunlight = clamp(@ + 10)], xp_reward |-> 4, ok |-> TRUE]
    ELSE IF type = "trim" THEN
        [plant |-> [plant EXCEPT !.health_score = clamp(@ + 5)], xp_reward |-> 6, ok |-> TRUE]
    ELSE IF type = "repot" THEN
        [plant |-> [plant EXCEPT !.health_score = clamp(@ + 10)], xp_reward |-> 10, ok |-> TRUE]
    ELSE
        [plant |-> plant, xp_reward |-> 0, ok |-> FALSE]

\* the care action with the type's effect applied before the decay
CareCompute_ActsThenDecays(plant, template, type, now) ==
    LET acted == apply_decay(Dispatch(plant, type).plant)
        scored == [acted EXCEPT !.health_score = compute_health(acted, template)]
        grown == apply_growth(scored)
        log_entry == [type |-> type, value |-> 1,
                      xp_reward |-> Dispatch(plant, type).xp_reward, date |-> now]
    IN  [grown EXCEPT !.action_log = <<log_entry>> \o @,
                      !.last_action_date = now,
                      !.updated_at = now]

\* the care action with the log entry added at the end of the log
CareCompute_AppendsLog(plant, template, type, now) ==
    LET decayed == apply_decay(plant)
        acted == Dispatch(decayed, type).plant
        scored == [acted EXCEPT !.health_score = compute_health(acted, template)]
        grown == apply_growth(scored)
        log_entry == [type |-> type, value |-> 1,
                      xp_reward |-> Dispatch(decayed, type).xp_reward, date |-> now]
    IN  [grown EXCEPT !.action_log = Append(@, log_entry),
                      !.last_action_date = now,
                      !.updated_at = now]

\* the care action that keeps the health_score trim and repot have bumped
CareCompute_KeepsBump(plant, template, type, now) ==
    LET decayed == apply_decay(plant)
        acted == Dispatch(decayed, type).plant
        scored == IF type \in {"trim", "repot"} THEN acted
                  ELSE [acted EXCEPT !.health_score = compute_health(acted, template)]
        grown == apply_growth(scored)
        log_entry == [type |-> type, value |-> 1,
                      xp_reward |-> Dispatch(decayed, type).xp_reward, date |-> now]
    IN  [grown EXCEPT !.action_log = <<log_entry>> \o @,
                      !.last_action_date = now,
                      !.updated_at = now]

\* the care action whose log entry carries the value in place of the reward
CareCompute_LogsValue(plant, template, type, now) ==
    LET decayed == apply_decay(plant)
        acted == Dispatch(decayed, type).plant
        scored == [acted EXCEPT !.health_score = compute_health(acted, template)]
        grown == apply_growth(scored)
        log_entry == [type |-> type, value |-> 1, xp_reward |-> 1, date |-> now]
    IN  [grown EXCEPT !.action_log = <<log_entry>> \o @,
                      !.last_action_date = now,
                      !.updated_at = now]

\* care_action, lines 294-329: the document the handler holds when it
\* reaches the write, computed from the document it read
CareCompute(plant, template, type, now) ==
    LET decayed == apply_decay(plant)
        acted == Dispatch(decayed, type).plant
        scored == [acted EXCEPT !.health_score = compute_health(acted, template)]
        grown == apply_growth(scored)
        log_entry == [type |-> type, value |-> 1,
                      xp_reward |-> Dispatch(decayed, type).xp_reward, date |-> now]
    IN  [grown EXCEPT !.action_log = <<log_entry>> \o @,
                      !.last_action_date = now,
                      !.updated_at = now]

\* the request just served and its response: the operation, the plant or
\* user it names, the care action type ("" for other operations), the HTTP
\* status, and the "updated" count a growth tick returns
Response(op, target, arg, status, updated) ==
    [op |-> op, target |-> target, arg |-> arg, status |-> status, updated |-> updated]

care_action(plant_id, type) ==
    /\ clock' = clock + 1
    /\ UNCHANGED sensordata
    /\ IF plant_id \notin DOMAIN plants THEN
           /\ last' = Response("care", plant_id, type, 404, 0)
           /\ UNCHANGED <<plants, xp>>
       ELSE IF ~Dispatch(apply_decay(plants[plant_id]), type).ok THEN
           /\ last' = Response("care", plant_id, type, 400, 0)
           /\ UNCHANGED <<plants, xp>>
       ELSE
           LET plant == plants[plant_id]
               template == TemplateDoc(plant.template)
               xp_reward == Dispatch(apply_decay(plant), type).xp_reward
           IN  /\ plants' = [plants EXCEPT
                                ![plant_id] = CareCompute(plant, template, type, clock)]
               /\ xp' = [xp EXCEPT ![plant.owner] = @ + xp_reward]
               /\ last' = Response("care", plant_id, type, 200, 0)

(* ----------------------------- growth tick ----------------------------- *)
\* run_growth, lines 345-349: one plant of the loop
\* a tick that scores the plant before it decays it
GrowthCompute_ScoresThenDecays(p, template, now) ==
    LET scored == [p EXCEPT !.health_score = compute_health(p, template)]
        decayed == apply_decay(scored)
        grown == apply_growth(decayed)
    IN  [grown EXCEPT !.updated_at = now]

GrowthCompute(p, template, now) ==
    LET decayed == apply_decay(p)
        scored == [decayed EXCEPT !.health_score = compute_health(decayed, template)]
        grown == apply_growth(scored)
    IN  [grown EXCEPT !.updated_at = now]

run_growth(user_id) ==
    LET owned == {i \in DOMAIN plants : plants[i].owner = user_id}
    IN  /\ clock' = clock + 1
        /\ plants' = [i \in DOMAIN plants |->
                         IF i \in owned
                         THEN GrowthCompute(plants[i], TemplateDoc(plants[i].template), clock)
                         ELSE plants[i]]
        /\ last' = Response("growth", user_id, "", 200, Cardinality(owned))
        /\ UNCHANGED <<xp, sensordata>>

(* ----------------------------- sensor ingest --------------------------- *)
\* int(clamp(data.moisture)), the moisture given in tenths
MoistureToHydration(m10) == Max(0, Min(1000, m10)) \div 10

\* whole lux values in 0..1000 whose double (light / 1000.0) * 100 lies just
\* below the exact light / 10 (290 gives 28.999999999999996)
DoubleShort == {290, 570, 580}

\* int(clamp((data.light / 1000.0) * 100)) for a whole number of lux
LightToSunlight(lux) ==
    IF lux <= 0 THEN 0
    ELSE IF lux >= 1000 THEN 100
    ELSE IF lux \in DoubleShort THEN (lux \div 10) - 1
    ELSE lux \div 10

\* ingest_sensor, lines 437-445
SensorCompute(plant, tmpl, moisture, light, now) ==
    LET wet == IF moisture # Null
               THEN [plant EXCEPT !.hydration = MoistureToHydration(moisture[1])]
               ELSE plant
        lit == IF light # Null
               THEN [wet EXCEPT !.sunlight = LightToSunlight(light[1])]
               ELSE wet
        scored == [lit EXCEPT !.health_score = compute_health(lit, tmpl)]
        grown == apply_growth(scored)
    IN  [grown EXCEPT !.updated_at = now]

ingest_sensor(plant_id, moisture, light) ==
    /\ clock' = clock + 1
    /\ UNCHANGED xp
    /\ IF plant_id \notin DOMAIN plants THEN
           /\ last' = Response("sensor", plant_id, "", 404, 0)
           /\ UNCHANGED <<plants, sensordata>>
       ELSE
           LET plant == plants[plant_id]
               tmpl == TemplateDoc(plant.template)
               sensor_doc == [plant |-> plant_id, moisture |-> moisture,
                              temperature |-> Null, humidity |-> Null,
                              light |-> light, timestamp |-> clock]
           IN  /\ plants' = [plants EXCEPT
                                ![plant_id] = SensorCompute(plant, tmpl, moisture, light, clock)]
               /\ sensordata' = Append(sensordata, sensor_doc)
               /\ last' = Response("sensor", plant_id, "", 200, 0)

(* ----------------------- requests being served ------------------------- *)
\* The handlers run in a thread pool, so two requests may be between their
\* find_one and their update_one at once.  A slot holds one request: where
\* it is (pc), what was asked, the documents its find / find_one returned
\* (docs), the plants a growth tick has still to write (todo), and the clock
\* readings at its read and at its last write.  Spec and SpecDecay serve each
\* request in one step and leave every slot idle.
Slots == {"a", "b"}

Idle ==
    [pc |-> "idle", op |-> "", target |-> "", arg |-> "", reading |-> <<Null, Null>>,
     docs |-> << >>, todo |-> << >>, readAt |-> 0, wroteAt |-> 0, served |-> 0]


\* create_user_plant, lines 246-261
NewPlant(owner, template, now) ==
    [owner |-> owner, template |-> template,
     growth_points |-> 0, hydration |-> 50, nutrition |-> 50, sunlight |-> 50,
     health_score |-> 100, stage |-> "seed",
     last_action_date |-> NoDate, action_log |-> << >>, updated_at |-> now]

\* The n sensor packets that were stored for plant i before the behaviour
\* starts, the last of them at time `upto`: all but the last at the ideals of
\* its template, the last at moisture 50.0 and light 500.
Packets(i, n, upto) ==
    LET tmpl == TemplateDoc(TemplateOf(i))
    IN  [k \in 1..n |->
            [plant |-> i,
             moisture |-> IF k < n THEN <<10 * tmpl.ideal_moisture>> ELSE <<500>>,
             temperature |-> Null, humidity |-> Null,
             light |-> IF k < n THEN <<10 * tmpl.ideal_light>> ELSE <<500>>,
             timestamp |-> upto - (n - k)]]

\* The document of the newly adopted `plant` after ingest_sensor has served
\* those packets in order.  A packet at the ideals leaves hydration and
\* sunlight at the ideals and nutrition at 50, so health_score is 96 and
\* apply_growth adds 10 points: m such packets give 10 * m points.  The last
\* packet is served on that document.
Fed(plant, packets) ==
    LET n == Len(packets)
        tmpl == TemplateDoc(plant.template)
        atIdeals == [plant EXCEPT !.hydration = tmpl.ideal_moisture,
                                  !.sunlight = tmpl.ideal_light]
        beforeLast ==
            IF n = 1 THEN plant
            ELSE [atIdeals EXCEPT !.health_score = compute_health(atIdeals, tmpl),
                                  !.growth_points = 10 * (n - 1),
                                  !.stage = StageFor(10 * (n - 1)),
                                  !.updated_at = packets[n - 1].timestamp]
    IN  IF n = 0 THEN plant
        ELSE SensorCompute(beforeLast, tmpl, packets[n].moisture, packets[n].light,
                           packets[n].timestamp)

\* The state in which a behaviour starts: both plants were adopted at the
\* same moment, then ingest_sensor served g.p1/10 packets for p1 and after
\* them g.p2/10 packets for p2, the last one at time 0.  Each packet finds
\* the plant healthy and adds 10 growth points, so the plants hold g.p1 and
\* g.p2 points, every stat is at 50 again, and nobody has earned xp.
Started(g) ==
    LET n1 == g.p1 \div 10
        n2 == g.p2 \div 10
        adopted == 0 - (n1 + n2)
        packets == [i \in Plants |->
                      IF i = "p1" THEN Packets(i, n1, 0 - n2) ELSE Packets(i, n2, 0)]
    IN  [plants |-> [i \in Plants |->
                        Fed(NewPlant(OwnerOf(i), TemplateOf(i), adopted), packets[i])],
         sensordata |-> packets["p1"] \o packets["p2"]]

Init ==
    /\ \E g \in StartGP :
          /\ plants = Started(g).plants
          /\ sensordata = Started(g).sensordata
    /\ xp = [u \in Users |-> 0]
    /\ clock = 1
    /\ last = Response("none", "", "", 0, 0)
    /\ inflight = [r \in Slots |-> Idle]

Next ==
    /\ clock <= MaxOps
    /\ UNCHANGED inflight
    /\ \/ \E id \in Plants \cup {NoSuchPlant}, type \in ActionTypes : care_action(id, type)
       \/ \E id \in Plants \cup {NoSuchPlant}, r \in Readings : ingest_sensor(id, r[1], r[2])
       \/ \E u \in Users : run_growth(u)

Spec == Init /\ [][Next]_vars

(* ------------------- decay alone: growth ticks only -------------------- *)
\* the values a stat may hold when the ticks start
DecayStarts == 0..100

\* One plant of u1 whose hydration and nutrition are any v of DecayStarts and
\* whose sunlight is v or 100 - v (apply_decay lowers each stat from its own
\* value alone), its health_score the one compute_health gives for them;
\* thereafter u1's growth tick and nothing else, as often as MaxTicks allows.
InitDecay ==
    /\ \E v \in DecayStarts : \E s \in {v, 100 - v} :
          plants = [i \in {"p1"} |->
                      LET drawn == [NewPlant(OwnerOf(i), TemplateOf(i), 0) EXCEPT
                                       !.hydration = v, !.nutrition = v, !.sunlight = s]
                      IN  [drawn EXCEPT !.health_score =
                              compute_health(drawn, TemplateDoc(TemplateOf(i)))]]
    /\ xp = [u \in Users |-> 0]
    /\ sensordata = << >>
    /\ clock = 1
    /\ last = Response("none", "", "", 0, 0)
    /\ inflight = [r \in Slots |-> Idle]

NextDecay == clock <= MaxTicks /\ run_growth("u1") /\ UNCHANGED inflight

\* the ticks keep coming: the premise "repeated decay"
SpecDecay == InitDecay /\ [][NextDecay]_vars /\ WF_vars(NextDecay)

(* --------------- overlapping requests: read, write, finish ------------- *)
\* what the overlapping requests ask for: care actions, a sensor packet with
\* moisture 130.0 and light -20 and one with light 500, growth ticks
RaceRequests ==
    { [op |-> "care", target |-> "p1", arg |-> "water", reading |-> <<Null, Null>>],
      [op |-> "care", target |-> "p1", arg |-> "fertilize", reading |-> <<Null, Null>>],
      [op |-> "care", target |-> "p1", arg |-> "prune", reading |-> <<Null, Null>>],
      [op |-> "care", target |-> "p2", arg |-> "repot", reading |-> <<Null, Null>>],
      [op |-> "care", target |-> NoSuchPlant, arg |-> "water", reading |-> <<Null, Null>>],
      [op |-> "sensor", target |-> "p1", arg |-> "", reading |-> << <<1300>>, <<-20>> >>],
      [op |-> "sensor", target |-> "p2", arg |-> "", reading |-> <<Null, <<500>> >>],
      [op |-> "growth", target |-> "u1", arg |-> "", reading |-> <<Null, Null>>],
      [op |-> "growth", target |-> "u2", arg |-> "", reading |-> <<Null, Null>>] }

\* the order in which find() returns the documents of userplants
PlantOrder == <<"p1", "p2", "p3">>

\* find_one / find: the request takes its copy of the documents; find()
\* returns the user's plants in the order `order`
RaceRead(r, op, target, arg, reading, order) ==
    /\ inflight[r].pc \in {"idle", "done"}
    /\ inflight["a"].served + inflight["b"].served < MaxRequests
    /\ LET owned == {i \in DOMAIN plants : plants[i].owner = target}
           found == IF op = "growth" THEN owned ELSE {target} \cap DOMAIN plants
           ordered == SelectSeq(order, LAMBDA i : i \in found)
       IN  inflight' = [inflight EXCEPT ![r] =
               [pc |-> "read", op |-> op, target |-> target, arg |-> arg,
                reading |-> reading, docs |-> [i \in found |-> plants[i]],
                todo |-> ordered, readAt |-> clock, wroteAt |-> 0,
                served |-> inflight[r].served + 1]]
    /\ clock' = clock + 1
    /\ UNCHANGED <<plants, xp, sensordata, last>>

\* an update that sets only the fields the handler changed in its copy
Persist_ChangedFields(stored, read, document) ==
    [f \in DOMAIN document |-> IF document[f] # read[f] THEN document[f] ELSE stored[f]]

\* update_one(..., {"$set": plant}): every field of the stored document takes
\* the value it has in the handler's copy, whatever the copy was read from
Persist(stored, read, document) == document

\* the work on the copy and update_one with the whole copy ($set: plant);
\* a care action of an unrecognized type answers 400 here, a request for a
\* plant that was not found 404
RaceWrite(r) ==
    LET q == inflight[r]
        i == Head(q.todo)
        tmpl == TemplateDoc(q.docs[i].template)
        document ==
            IF q.op = "care" THEN CareCompute(q.docs[i], tmpl, q.arg, clock)
            ELSE IF q.op = "sensor"
            THEN SensorCompute(q.docs[i], tmpl, q.reading[1], q.reading[2], clock)
            ELSE GrowthCompute(q.docs[i], tmpl, clock)
    IN  /\ q.pc = "read"
        /\ q.op \in {"care", "sensor"} \/ q.todo # << >>
        /\ clock' = clock + 1
        /\ UNCHANGED <<xp, sensordata>>
        /\ IF q.todo = << >> THEN
               /\ inflight' = [inflight EXCEPT ![r].pc = "done"]
               /\ last' = Response(q.op, q.target, q.arg, 404, 0)
               /\ UNCHANGED plants
           ELSE IF q.op = "care" /\ ~Dispatch(apply_decay(q.docs[i]), q.arg).ok THEN
               /\ inflight' = [inflight EXCEPT ![r].pc = "done"]
               /\ last' = Response(q.op, q.target, q.arg, 400, 0)
               /\ UNCHANGED plants
           ELSE
               /\ plants' = [plants EXCEPT ![i] = Persist(plants[i], q.docs[i], document)]
               /\ inflight' = [inflight EXCEPT
                                 ![r].pc = IF q.op = "growth" THEN "read" ELSE "wrote",
                                 ![r].todo = Tail(q.todo),
                                 ![r].wroteAt = clock]
               /\ UNCHANGED last

\* after the write: care_action adds the reward to the owner's xp ($inc),
\* ingest_sensor stores the packet, run_growth answers once its loop is over
RaceFinish(r) ==
    LET q == inflight[r]
    IN  /\ \/ q.pc = "wrote"
           \/ q.pc = "read" /\ q.op = "growth" /\ q.todo = << >>
        /\ clock' = clock + 1
        /\ inflight' = [inflight EXCEPT ![r].pc = "done"]
        /\ last' = Response(q.op, q.target, q.arg, 200,
                            IF q.op = "growth" THEN Cardinality(DOMAIN q.docs) ELSE 0)
        /\ UNCHANGED plants
        /\ IF q.op = "care" THEN
               /\ xp' = [xp EXCEPT ![q.docs[q.target].owner] =
                            @ + Dispatch(apply_decay(q.docs[q.target]), q.arg).xp_reward]
               /\ UNCHANGED sensordata
           ELSE IF q.op = "sensor" THEN
               /\ sensordata' = Append(sensordata,
                      [plant |-> q.target, moisture |-> q.reading[1],
                       temperature |-> Null, humidity |-> Null,
                       light |-> q.reading[2], timestamp |-> clock])
               /\ UNCHANGED xp
           ELSE UNCHANGED <<xp, sensordata>>

NextRace ==
    \/ \E r \in Slots, q \in RaceRequests :
          RaceRead(r, q.op, q.target, q.arg, q.reading, PlantOrder)
    \/ \E r \in Slots : RaceWrite(r)
    \/ \E r \in Slots : RaceFinish(r)

\* every request that was begun is served to its end
SpecRace == Init /\ [][NextRace]_vars /\ WF_vars(NextRace)

(* ------------- growth ticks of a user who owns two plants -------------- *)
\* u1 has adopted a second Rose, p3, along with the others; u0 owns nothing
NoPlantsUser == "u0"

TickRequests ==
    { [op |-> "growth", target |-> "u1", arg |-> "", reading |-> <<Null, Null>>],
      [op |-> "growth", target |-> "u2", arg |-> "", reading |-> <<Null, Null>>],
      [op |-> "growth", target |-> NoPlantsUser, arg |-> "", reading |-> <<Null, Null>>],
      [op |-> "care", target |-> "p3", arg |-> "water", reading |-> <<Null, Null>>],
      [op |-> "care", target |-> "p1", arg |-> "trim", reading |-> <<Null, Null>>],
      [op |-> "care", target |-> "p3", arg |-> "prune", reading |-> <<Null, Null>>],
      [op |-> "sensor", target |-> "p3", arg |-> "", reading |-> << <<1300>>, <<-20>> >>],
      [op |-> "sensor", target |-> "p2", arg |-> "", reading |-> <<Null, <<500>> >>] }

\* find() promises no order: p1 before p3 or p3 before p1
PlantOrders == {PlantOrder, <<"p3", "p2", "p1">>}

InitTick ==
    /\ \E g \in StartGP :
          /\ plants = [i \in Plants \cup {"p3"} |->
                          IF i \in Plants THEN Started(g).plants[i]
                          ELSE NewPlant(OwnerOf(i), TemplateOf(i),
                                        0 - (g.p1 \div 10 + g.p2 \div 10))]
          /\ sensordata = Started(g).sensordata
    /\ xp = [u \in Users |-> 0]
    /\ clock = 1
    /\ last = Response("none", "", "", 0, 0)
    /\ inflight = [r \in Slots |-> Idle]

\* one request at a time, each served step by step in slot a
NextTick ==
    \/ \E q \in TickRequests, order \in PlantOrders :
          RaceRead("a", q.op, q.target, q.arg, q.reading, order)
    \/ RaceWrite("a")
    \/ RaceFinish("a")

SpecTick == InitTick /\ [][NextTick]_vars

(* ------------- the engine on any stored plant document ----------------- *)
\* the handlers take whatever document userplants holds; the schema asks of
\* growth_points only that it is an int and of the stats that they lie in
\* 0..100
MaxGrowthOps == 2
GrowthStarts == {90, 95, 240, 495}
HydrationStarts == {h \in 0..100 : h % 5 = 0}
NutritionStarts == {45, 60}

\* one Rose of u1 with points, hydration and nutrition drawn from those sets
InitGrowth ==
    /\ \E gp \in GrowthStarts, h \in HydrationStarts, n \in NutritionStarts :
          plants = [i \in {"p1"} |->
                      LET drawn == [NewPlant(OwnerOf(i), TemplateOf(i), 0) EXCEPT
                                       !.growth_points = gp, !.stage = StageFor(gp),
                                       !.hydration = h, !.nutrition = n]
                      IN  [drawn EXCEPT !.health_score =
                              compute_health(drawn, TemplateDoc(TemplateOf(i)))]]
    /\ xp = [u \in Users |-> 0]
    /\ sensordata = << >>
    /\ clock = 1
    /\ last = Response("none", "", "", 0, 0)
    /\ inflight = [r \in Slots |-> Idle]

NextGrowth ==
    /\ clock <= MaxGrowthOps
    /\ UNCHANGED inflight
    /\ \/ \E type \in ActionTypes : care_action("p1", type)
       \/ \E r \in Readings : ingest_sensor("p1", r[1], r[2])
       \/ run_growth("u1")

SpecGrowth == InitGrowth /\ [][NextGrowth]_vars

(* ------------------------ reading a behaviour --------------------------- *)
\* the request just served was a successful care action on plant i
CareDone(i) == last.op = "care" /\ last.target = i /\ last.status = 200
\* the request just served was a care action on plant i that was refused
CareRefused(i) == last.op = "care" /\ last.target = i /\ last.status = 400
\* the request just served was a sensor packet stored for plant i
SensorDone(i) == last.op = "sensor" /\ last.target = i /\ last.status = 200
\* the request just served was a growth tick that processed plant i
TickDone(i) == last.op = "growth" /\ last.status = 200 /\ plants[i].owner = last.target

(* -------------------------------- C1 ----------------------------------- *)
\* C1: after any sequence of care actions (valid or unrecognized), sensor
\* packets and growth ticks, every persisted plant has hydration, nutrition,
\* sunlight and health_score in 0..100.
C1_StatsInRange ==
    \A i \in DOMAIN plants :
        /\ plants[i].hydration \in 0..100
        /\ plants[i].nutrition \in 0..100
        /\ plants[i].sunlight \in 0..100
        /\ plants[i].health_score \in 0..100

\* a packet with moisture -5.0 put hydration at the floor and a later growth
\* tick decayed it again: 0 - 5 was clamped back to 0
C1_Witness ==
    /\ TickDone("p1")
    /\ plants["p1"].hydration = 0
    /\ \E k \in 1..Len(sensordata) :
          sensordata[k].plant = "p1" /\ sensordata[k].moisture = <<-50>>

(* -------------------------------- C2 ----------------------------------- *)
\* C2: a care action whose type is none of water, fertilize, sunlight_add,
\* trim, repot is answered with status 400 and writes nothing: every plant
\* document (stats, health_score, growth_points, stage, action_log,
\* last_action_date) and every user's xp are as before the request.
C2_UnknownTypeChangesNothing ==
    [][ (/\ last'.op = "care"
         /\ last'.target \in DOMAIN plants
         /\ last'.arg \notin {"water", "fertilize", "sunlight_add", "trim", "repot"})
        => (last'.status = 400 /\ plants' = plants /\ xp' = xp) ]_vars

\* "prune" was refused for a plant whose stats decay would have changed
C2_Witness ==
    /\ CareRefused("p1")
    /\ last.arg = "prune"
    /\ plants["p1"].hydration = 50 /\ plants["p1"].nutrition = 50
    /\ plants["p1"].sunlight = 50
    /\ plants["p1"].action_log = << >>
    /\ xp["u1"] = 0

(* -------------------------------- C3 ----------------------------------- *)
\* C3: every operation leaves each plant's growth_points equal to, or exactly
\* 10 greater than, its value before the operation.
C3_GrowthPointsStep ==
    [][ \A i \in DOMAIN plants :
           plants'[i].growth_points \in
               {plants[i].growth_points, plants[i].growth_points + 10} ]_vars

\* p1 grew twice from 0 and the third operation, which left it unhealthy,
\* added nothing
C3_Witness ==
    /\ plants["p1"].growth_points = 20
    /\ plants["p1"].health_score <= 70
    /\ last.target = "p1" /\ last.status = 200
    /\ clock = 4

(* -------------------------------- C4 ----------------------------------- *)
\* C4: in every persisted plant state, stage is mature if growth_points >=
\* 500, else juvenile if >= 250, else sprout if >= 100, else seed.
C4_StageOfPoints(gp) ==
    CASE gp >= 500 -> "mature"
      [] gp >= 250 /\ gp < 500 -> "juvenile"
      [] gp >= 100 /\ gp < 250 -> "sprout"
      [] gp < 100 -> "seed"

C4_StageFromGrowthPoints ==
    \A i \in DOMAIN plants : plants[i].stage = C4_StageOfPoints(plants[i].growth_points)

\* p1 has just reached 100 points and p2 500
C4_Witness ==
    /\ plants["p1"].growth_points = 100 /\ plants["p1"].stage = "sprout"
    /\ plants["p2"].growth_points = 500 /\ plants["p2"].stage = "mature"
    /\ last.status = 200

(* -------------------------------- C5 ----------------------------------- *)
\* the integer nearest to 0.95 * s, the even one of the two when 0.95 * s lies
\* halfway between them
C5_Rounded95(s) ==
    CHOOSE k \in 0..100 :
        \/ Abs(100 * k - 95 * s) < 50
        \/ Abs(100 * k - 95 * s) = 50 /\ k % 2 = 0

\* C5: a successful care action leaves hydration, nutrition and sunlight at
\* the decayed values max(0, h-5), max(0, n-2), round(0.95*s), except that
\* water adds 20 to the decayed hydration, fertilize 15 to the decayed
\* nutrition and sunlight_add 10 to the decayed sunlight, each capped at 100.
C5_CareDecaysThenActs ==
    [][ \A i \in DOMAIN plants :
           CareDone(i)' =>
               LET h == Max(0, plants[i].hydration - 5)
                   n == Max(0, plants[i].nutrition - 2)
                   s == C5_Rounded95(plants[i].sunlight)
                   type == last'.arg
               IN  /\ plants'[i].hydration =
                          IF type = "water" THEN Min(100, h + 20) ELSE h
                   /\ plants'[i].nutrition =
                          IF type = "fertilize" THEN Min(100, n + 15) ELSE n
                   /\ plants'[i].sunlight =
                          IF type = "sunlight_add" THEN Min(100, s + 10) ELSE s ]_vars

\* the first request waters the freshly adopted 50/50/50 plant: 65, 48, 48
C5_Witness ==
    /\ CareDone("p1") /\ last.arg = "water"
    /\ Len(plants["p1"].action_log) = 1
    /\ plants["p1"].growth_points = 10
    /\ plants["p1"].updated_at = 1
    /\ plants["p1"].hydration = 65
    /\ plants["p1"].nutrition = 48
    /\ plants["p1"].sunlight = 48

(* -------------------------------- C6 ----------------------------------- *)
C6_Reward(type) ==
    CASE type = "water" -> 5
      [] type = "fertilize" -> 7
      [] type = "sunlight_add" -> 4
      [] type = "trim" -> 6
      [] type = "repot" -> 10

\* C6: a successful care action adds the reward of its type to the xp of the
\* plant's owner and changes no other user's xp; every other request (sensor
\* packet, growth tick, refused or unresolved care action) changes no xp.
C6_XpByReward ==
    [][ IF last'.op = "care" /\ last'.status = 200
        THEN xp' = [xp EXCEPT ![plants[last'.target].owner] = @ + C6_Reward(last'.arg)]
        ELSE xp' = xp ]_vars

\* u1 was credited a trim and a water, u2 a repot
C6_Witness ==
    /\ xp["u1"] = 11 /\ xp["u2"] = 10
    /\ Len(plants["p1"].action_log) = 2
    /\ plants["p1"].action_log[1].type = "trim"
    /\ plants["p2"].action_log[1].type = "repot"

(* -------------------------------- C7 ----------------------------------- *)
C7_Stats(p) ==
    [hydration |-> p.hydration, nutrition |-> p.nutrition, sunlight |-> p.sunlight]

\* one decay of the three stats
C7_Decayed(p) ==
    [hydration |-> Max(0, p.hydration - 5),
     nutrition |-> Max(0, p.nutrition - 2),
     sunlight |-> C5_Rounded95(p.sunlight)]

\* the effect of a care action type on the three stats
C7_Acted(st, type) ==
    [hydration |-> IF type = "water" THEN Min(100, st.hydration + 20) ELSE st.hydration,
     nutrition |-> IF type = "fertilize" THEN Min(100, st.nutrition + 15) ELSE st.nutrition,
     sunlight |-> IF type = "sunlight_add" THEN Min(100, st.sunlight + 10) ELSE st.sunlight]

\* the stats a sensor packet does not overwrite equal those of st
C7_KeptBySensor(after, st, packet) ==
    /\ after.nutrition = st.nutrition
    /\ packet.moisture = Null => after.hydration = st.hydration
    /\ packet.light = Null => after.sunlight = st.sunlight

\* C7 as claimed: every engine invocation (care action, sensor packet, each
\* plant of a growth tick) decays the stats exactly once, before its own
\* effect.
C7_DecayOncePerInvocation ==
    [][ \A i \in DOMAIN plants :
           /\ CareDone(i)' =>
                 C7_Stats(plants'[i]) = C7_Acted(C7_Decayed(plants[i]), last'.arg)
           /\ TickDone(i)' => C7_Stats(plants'[i]) = C7_Decayed(plants[i])
           /\ SensorDone(i)' =>
                 C7_KeptBySensor(plants'[i], C7_Decayed(plants[i]),
                                 sensordata'[Len(sensordata')]) ]_vars

\* C7 as amended: a care action and each plant of a growth tick decay the
\* stats exactly once, before the operation's own effect; a sensor packet
\* decays nothing (the stats it does not overwrite keep their values).
C7_DecayOnceExceptSensor ==
    [][ \A i \in DOMAIN plants :
           /\ CareDone(i)' =>
                 C7_Stats(plants'[i]) = C7_Acted(C7_Decayed(plants[i]), last'.arg)
           /\ TickDone(i)' => C7_Stats(plants'[i]) = C7_Decayed(plants[i])
           /\ SensorDone(i)' =>
                 C7_KeptBySensor(plants'[i], C7_Stats(plants[i]),
                                 sensordata'[Len(sensordata')]) ]_vars

\* a packet with moisture 130.0 set hydration to 100, then a water action:
\* decayed to 95 and raised to the cap (acting first would leave 95)
C7_Witness ==
    /\ CareDone("p1") /\ last.arg = "water"
    /\ plants["p1"].hydration = 100
    /\ Len(sensordata) >= 1
    /\ sensordata[Len(sensordata)].plant = "p1"
    /\ sensordata[Len(sensordata)].moisture = <<1300>>

(* -------------------------------- C8 ----------------------------------- *)
\* C8 as claimed: a sensor packet for a plant leaves nutrition as it was,
\* sets hydration to the whole part of clamp(moisture) when moisture is
\* present and sunlight to the whole part of clamp(light / 1000 * 100) when
\* light is present, and leaves an absent one's stat as it was.
C8_SensorOverwrites ==
    [][ \A i \in DOMAIN plants :
           SensorDone(i)' =>
               LET packet == sensordata'[Len(sensordata')]
               IN  /\ plants'[i].nutrition = plants[i].nutrition
                   /\ plants'[i].hydration =
                          IF packet.moisture = Null THEN plants[i].hydration
                          ELSE Max(0, Min(1000, packet.moisture[1])) \div 10
                   /\ plants'[i].sunlight =
                          IF packet.light = Null THEN plants[i].sunlight
                          ELSE Max(0, Min(1000, packet.light[1])) \div 10 ]_vars

(* -------------------------------- C9 ----------------------------------- *)
\* C9: a successful care action puts one entry (its type, value 1, the reward
\* of the type) in front of the plant's action_log and leaves the earlier
\* entries as they were, so the log, empty at adoption, is most recent first;
\* every other request leaves action_log and last_action_date unchanged.
C9_LogOnlyByCare ==
    /\ \A i \in DOMAIN plants : plants[i].action_log = << >>
    /\ [][ \A i \in DOMAIN plants :
              LET before == plants[i].action_log
                  after == plants'[i].action_log
              IN  IF CareDone(i)'
                  THEN /\ Len(after) = Len(before) + 1
                       /\ Tail(after) = before
                       /\ after[1].type = last'.arg
                       /\ after[1].value = 1
                       /\ after[1].xp_reward = C6_Reward(last'.arg)
                       /\ \A k \in 2..Len(after) : after[1].date > after[k].date
                  ELSE /\ after = before
                       /\ plants'[i].last_action_date = plants[i].last_action_date ]_vars

\* three care actions on p1, then nothing lost: repot, fertilize, water from
\* the front, the oldest last
C9_Witness ==
    /\ Len(plants["p1"].action_log) = 3
    /\ plants["p1"].action_log[1].type = "repot"
    /\ plants["p1"].action_log[2].type = "fertilize"
    /\ plants["p1"].action_log[3].type = "water"
    /\ plants["p1"].action_log[3].date = 1
    /\ plants["p1"].last_action_date = 3

(* -------------------------------- C10 ---------------------------------- *)
\* C10 as claimed, in the form a finite run refutes: decay keeps lowering the
\* stats until hydration, nutrition and sunlight are all 0, so a growth tick
\* that changes none of the three finds all three at 0.
C10_DecayStopsOnlyAtZero ==
    [][ \A i \in DOMAIN plants :
           (TickDone(i)' /\ C7_Stats(plants'[i]) = C7_Stats(plants[i]))
           => (/\ plants[i].hydration = 0
               /\ plants[i].nutrition = 0
               /\ plants[i].sunlight = 0) ]_vars

\* C10, what the code does instead: repeated growth ticks eventually bring
\* hydration and nutrition to 0 and sunlight to 10 or less, for good; sunlight
\* falls only while it is above 10 and never below 10: round(0.95 * s) is s
\* itself for every s <= 10, so sunlight reaches 0 only if it started at 0.
C10_CodeFloor ==
    /\ <>[](\A i \in DOMAIN plants :
               /\ plants[i].hydration = 0
               /\ plants[i].nutrition = 0
               /\ plants[i].sunlight <= 10)
    /\ [][ \A i \in DOMAIN plants :
              IF plants[i].sunlight <= 10
              THEN plants'[i].sunlight = plants[i].sunlight
              ELSE plants'[i].sunlight >= 10
                   /\ plants'[i].sunlight < plants[i].sunlight ]_vars

\* fifty ticks on: hydration and nutrition are at 0, sunlight rests at 10
C10_CodeFloorReached ==
    /\ TickDone("p1")
    /\ clock = 51
    /\ plants["p1"].hydration = 0
    /\ plants["p1"].nutrition = 0
    /\ plants["p1"].sunlight = 10

(* -------------------------------- C11 ---------------------------------- *)
\* slots r1 and r2 hold two served care actions on plant i that both read it
\* before either wrote it, r2 writing last; both read the same document
C11_Overlapped(r1, r2, i) ==
    /\ r1 # r2
    /\ inflight[r1].pc = "done" /\ inflight[r2].pc = "done"
    /\ inflight[r1].op = "care" /\ inflight[r2].op = "care"
    /\ inflight[r1].target = i /\ inflight[r2].target = i
    /\ inflight[r1].wroteAt > 0
    /\ inflight[r1].wroteAt < inflight[r2].wroteAt
    /\ inflight[r1].readAt < inflight[r1].wroteAt
    /\ inflight[r2].readAt < inflight[r1].wroteAt
    /\ inflight[r1].docs[i] = inflight[r2].docs[i]

\* C11: when two care actions on a plant both read it before either writes,
\* the stored plant is afterwards exactly what the later writer computed from
\* the document both read: the stats are that document's, decayed once and
\* changed by the later action alone, and the log is that document's log with
\* the later action's entry in front (the earlier writer's change and entry
\* are gone); yet each of the two adds its reward to the owner's xp.
C11_LastWriterWins ==
    /\ [](\A r1, r2 \in Slots : \A i \in DOMAIN plants :
             C11_Overlapped(r1, r2, i) =>
                 LET read == inflight[r2].docs[i]
                     later == inflight[r2]
                 IN  /\ plants[i] = CareCompute(read, TemplateDoc(read.template),
                                                later.arg, later.wroteAt)
                     /\ C7_Stats(plants[i]) = C7_Acted(C7_Decayed(read), later.arg)
                     /\ Len(plants[i].action_log) = Len(read.action_log) + 1
                     /\ Tail(plants[i].action_log) = read.action_log
                     /\ plants[i].action_log[1].type = later.arg
                     /\ plants[i].action_log[1].date = later.wroteAt)
    /\ [][ \A r \in Slots :
              (inflight[r].op = "care" /\ inflight[r].pc = "wrote"
               /\ inflight'[r].pc = "done")
              => xp' = [xp EXCEPT ![plants[inflight[r].target].owner] =
                           @ + C6_Reward(inflight[r].arg)] ]_vars

\* water and fertilize on the freshly adopted p1 overlapped, fertilize writing
\* last: hydration is the decayed 45 (the +20 is lost), nutrition 63, the log
\* holds the fertilize entry alone, and u1 has 5 + 7 xp
C11_Witness ==
    /\ C11_Overlapped("a", "b", "p1")
    /\ inflight["a"].arg = "water" /\ inflight["b"].arg = "fertilize"
    /\ plants["p1"].hydration = 45 /\ plants["p1"].nutrition = 63
    /\ Len(plants["p1"].action_log) = 1
    /\ plants["p1"].action_log[1].type = "fertilize"
    /\ xp["u1"] = 12

(* -------------------------------- C12 ---------------------------------- *)
\* the health of stats st under a template: 100 less a third of the summed
\* deviations from the ideals (60 for nutrition), cut to a whole number:
\* the largest h with 3 * h <= 300 - dev, kept within 0..100
C12_HealthOf(st, tmpl) ==
    LET dev == Abs(st.hydration - tmpl.ideal_moisture)
               + Abs(st.sunlight - tmpl.ideal_light)
               + Abs(st.nutrition - 60)
    IN  Max(0, Min(100, (300 - dev) \div 3))

\* `after` is `before` decayed, then scored, then grown, nothing else changed
C12_IsTick(before, after) ==
    LET st == C7_Decayed(before)
        health == C12_HealthOf(st, TemplateDoc(before.template))
        gp == IF health > 70 THEN before.growth_points + 10 ELSE before.growth_points
    IN  /\ C7_Stats(after) = st
        /\ after.health_score = health
        /\ after.growth_points = gp
        /\ after.stage = C4_StageOfPoints(gp)
        /\ after.action_log = before.action_log
        /\ after.last_action_date = before.last_action_date
        /\ after.owner = before.owner
        /\ after.template = before.template

\* C12: a growth tick for a user processes each plant the user owns exactly
\* once (decay, then health, then growth); each plant's new state is a
\* function of its own prior state and template, whatever the order of
\* processing; the plants of other users do not change; the count returned
\* is the number of the user's plants.
C12_TickPerPlant ==
    /\ [](LET q == inflight["a"]
              owned == {i \in DOMAIN plants : plants[i].owner = q.target}
          IN  (q.pc = "done" /\ q.op = "growth") =>
                 /\ DOMAIN q.docs = owned
                 /\ last.status = 200 /\ last.updated = Cardinality(owned)
                 /\ \A i \in owned :
                       /\ C12_IsTick(q.docs[i], plants[i])
                       /\ plants[i].updated_at > q.readAt
                       /\ plants[i].updated_at < clock)
    /\ [][ (inflight["a"].op = "growth" /\ inflight["a"].pc = "read") =>
              \A i \in DOMAIN plants :
                 /\ plants[i].owner # inflight["a"].target => plants'[i] = plants[i]
                 /\ plants'[i] # plants[i] =>
                       /\ i = Head(inflight["a"].todo)
                       /\ \A k \in 1..Len(inflight'["a"].todo) : inflight'["a"].todo[k] # i
          ]_vars

\* u1's tick has processed p3 before p1, the two in different states (p3 had
\* been watered), and has left p2 alone; it answers 2
C12_Witness ==
    /\ inflight["a"].pc = "done" /\ inflight["a"].op = "growth"
    /\ inflight["a"].target = "u1" /\ last.updated = 2
    /\ plants["p3"].updated_at < plants["p1"].updated_at
    /\ inflight["a"].docs["p3"].hydration = 65
    /\ plants["p3"].hydration = 60 /\ plants["p1"].hydration = 45
    /\ plants["p2"].updated_at <= 0

(* -------------------------------- C13 ---------------------------------- *)
\* C13: after every successful care action, sensor packet or growth tick the
\* stored health_score of the plant is computeHealth of its stored stats
\* (100 less a third of the summed deviations, truncated, within 0..100),
\* whatever health_score the plant held before.
C13_HealthDerived ==
    \A i \in DOMAIN plants :
        (CareDone(i) \/ SensorDone(i) \/ TickDone(i)) =>
            plants[i].health_score =
                C12_HealthOf(C7_Stats(plants[i]), TemplateDoc(plants[i].template))

\* the newly adopted p1 held health_score 100; watered, its stats are
\* 65 / 48 / 48 and its health_score is 100 - 39/3 = 87
C13_Witness ==
    /\ CareDone("p1") /\ last.arg = "water" /\ clock = 2
    /\ plants["p1"].growth_points = 10
    /\ C7_Stats(plants["p1"]) = [hydration |-> 65, nutrition |-> 48, sunlight |-> 48]
    /\ plants["p1"].health_score = 87

(* -------------------------------- C14 ---------------------------------- *)
\* the six fields a growth tick may change
C14_Grown(p) ==
    [hydration |-> p.hydration, nutrition |-> p.nutrition, sunlight |-> p.sunlight,
     health_score |-> p.health_score, growth_points |-> p.growth_points,
     stage |-> p.stage]

\* C14: the +5 of trim and the +10 of repot do not last: a trim and a repot
\* leave hydration, nutrition, sunlight, health_score, growth_points and
\* stage exactly as a growth tick on the same plant state would; what they
\* add is the log entry, last_action_date and the xp of their type.
C14_TrimRepotAsTick ==
    [][ \A i \in DOMAIN plants :
           (last'.op = "care" /\ last'.status = 200 /\ last'.target = i
            /\ last'.arg \in {"trim", "repot"}) =>
              /\ C14_Grown(plants'[i]) =
                    C14_Grown(GrowthCompute(plants[i], TemplateDoc(plants[i].template), clock))
              /\ C12_IsTick([plants[i] EXCEPT
                                !.action_log = plants'[i].action_log,
                                !.last_action_date = plants'[i].last_action_date],
                            plants'[i])
              /\ plants'[i].action_log =
                    << [type |-> last'.arg, value |-> 1,
                        xp_reward |-> C6_Reward(last'.arg), date |-> clock] >>
                    \o plants[i].action_log
              /\ plants'[i].last_action_date = clock
              /\ plants'[i].updated_at = clock
              /\ xp'[plants[i].owner] = xp[plants[i].owner] + C6_Reward(last'.arg)
      ]_vars

\* the newly adopted p1 (health_score 100) was trimmed and then p2 repotted:
\* p1 holds the 83 a tick gives it, not 100, and p2 the 80 a tick gives it;
\* both grew by 10 points, and only log and xp tell the two actions apart
C14_Witness ==
    /\ CareDone("p2") /\ last.arg = "repot" /\ clock = 3
    /\ Len(plants["p1"].action_log) = 1
    /\ plants["p1"].action_log[1].type = "trim" /\ plants["p1"].updated_at = 1
    /\ C14_Grown(plants["p1"]) =
          [hydration |-> 45, nutrition |-> 48, sunlight |-> 48,
           health_score |-> 83, growth_points |-> 10, stage |-> "seed"]
    /\ plants["p2"].hydration = 45 /\ plants["p2"].nutrition = 48
    /\ plants["p2"].sunlight = 48 /\ plants["p2"].health_score = 80
    /\ xp = [u \in Users |-> IF u = "u1" THEN 6 ELSE 10]

(* -------------------------------- C15 ---------------------------------- *)
\* C15: in every successful care action, sensor packet and growth tick the
\* plant's growth_points rises by exactly 10 if and only if the health_score
\* recomputed by that operation is above 70, and stays as it was at 70 or
\* below; a plant at 95 points whose recomputed health_score is 75 ends at
\* 105 points in stage sprout.
C15_GrowthIffHealthy ==
    [][ \A i \in DOMAIN plants :
           (last'.status = 200 /\ (CareDone(i) \/ SensorDone(i) \/ TickDone(i))') =>
              /\ plants'[i].health_score > 70
                    <=> plants'[i].growth_points = plants[i].growth_points + 10
              /\ plants'[i].health_score <= 70
                    => plants'[i].growth_points = plants[i].growth_points
              /\ (plants[i].growth_points = 95 /\ plants'[i].health_score = 75)
                    => (plants'[i].growth_points = 105 /\ plants'[i].stage = "sprout")
      ]_vars

\* a Rose at 95 points with hydration 30 and nutrition 45 went through a
\* growth tick: stats 25 / 43 / 48 give health_score 75, and it is a sprout
\* with 105 points
C15_Witness ==
    /\ TickDone("p1") /\ clock = 2
    /\ C7_Stats(plants["p1"]) = [hydration |-> 25, nutrition |-> 43, sunlight |-> 48]
    /\ plants["p1"].health_score = 75
    /\ plants["p1"].growth_points = 105
    /\ plants["p1"].stage = "sprout"

(* -------------------------------- C16 ---------------------------------- *)
\* the place of a stage in the order seed < sprout < juvenile < mature
C16_Rank(stage) ==
    CASE stage = "seed" -> 0
      [] stage = "sprout" -> 1
      [] stage = "juvenile" -> 2
      [] stage = "mature" -> 3

\* C16: when requests do not overlap, no operation moves a plant to an
\* earlier stage, and a plant that is mature stays mature ever after.
C16_StageNeverBack ==
    [][ \A i \in DOMAIN plants :
           /\ C16_Rank(plants'[i].stage) >= C16_Rank(plants[i].stage)
           /\ plants[i].stage = "mature" => plants'[i].stage = "mature" ]_vars

\* p2 became mature at 500 points with the first operation; two more
\* operations that found it unhealthy added no points and left it mature
C16_Witness ==
    /\ clock = 4
    /\ plants["p2"].updated_at = 3
    /\ plants["p2"].growth_points = 500
    /\ plants["p2"].stage = "mature"
    /\ plants["p2"].health_score <= 70

(* -------------------------------- C17 ---------------------------------- *)
\* C17 as claimed: also when requests on a plant overlap, no step lowers a
\* stored growth_points or moves a stored stage back.
C17_NeverDecreasesOverlapped ==
    [][ \A i \in DOMAIN plants :
           /\ plants'[i].growth_points >= plants[i].growth_points
           /\ C16_Rank(plants'[i].stage) >= C16_Rank(plants[i].stage) ]_vars

\* C17 as the code has it: every write of a plant stores the growth_points
\* its own request read, or 10 more, and a stage not earlier than the one it
\* read; so a write whose request read the points now stored lowers neither,
\* while a write computed from an older read may store fewer points and an
\* earlier stage than the plant holds.
C17_NeverBelowOwnRead ==
    [][ \A i \in DOMAIN plants :
           plants'[i] # plants[i] =>
              \E r \in Slots :
                 /\ inflight[r].pc = "read" /\ inflight[r].todo # << >>
                 /\ Head(inflight[r].todo) = i
                 /\ inflight'[r].wroteAt = clock
                 /\ LET read == inflight[r].docs[i]
                    IN  /\ plants'[i].growth_points \in
                               {read.growth_points, read.growth_points + 10}
                        /\ C16_Rank(plants'[i].stage) >= C16_Rank(read.stage)
                        /\ read.growth_points = plants[i].growth_points =>
                               /\ plants'[i].growth_points >= plants[i].growth_points
                               /\ C16_Rank(plants'[i].stage) >= C16_Rank(plants[i].stage)
      ]_vars

\* a sensor packet (slot a) and a watering (slot b) both read p1 at 90 points;
\* the watering wrote 100 points and sprout, then the packet, which found the
\* plant unhealthy, wrote its own 90 points and seed over them
C17_Witness ==
    /\ inflight["a"].op = "sensor" /\ inflight["a"].target = "p1"
    /\ inflight["b"].op = "care" /\ inflight["b"].arg = "water"
    /\ inflight["b"].target = "p1"
    /\ inflight["a"].pc = "done" /\ inflight["b"].pc = "done"
    /\ inflight["a"].docs["p1"].growth_points = 90
    /\ inflight["b"].docs["p1"].growth_points = 90
    /\ inflight["b"].wroteAt > 0
    /\ inflight["b"].wroteAt < inflight["a"].wroteAt
    /\ CareCompute(inflight["b"].docs["p1"], TemplateDoc("Rose"), "water",
                   inflight["b"].wroteAt).growth_points = 100
    /\ plants["p1"].growth_points = 90
    /\ plants["p1"].stage = "seed"
    /\ xp["u1"] = 5

(* -------------------------------- C18 ---------------------------------- *)
\* the xp_reward of the entries of an action log, added up
RECURSIVE C18_LogSum(_)
C18_LogSum(log) ==
    IF log = << >> THEN 0 ELSE Head(log).xp_reward + C18_LogSum(Tail(log))

\* the rewards logged on the plants of the set S, added up
RECURSIVE C18_Logged(_)
C18_Logged(S) ==
    IF S = {} THEN 0
    ELSE LET i == CHOOSE j \in S : TRUE
         IN  C18_LogSum(plants[i].action_log) + C18_Logged(S \ {i})

\* C18: with requests served one after the other, a user who started at
\* xp 0 holds, once a request is served, exactly the sum of the xp_reward of
\* all log entries of the plants the user owns.
C18_XpIsLoggedRewards ==
    (\A r \in Slots : inflight[r].pc \in {"idle", "done"}) =>
        \A u \in Users :
            xp[u] = C18_Logged({i \in DOMAIN plants : plants[i].owner = u})

\* u1 trimmed p1 and watered p3: 6 + 5 over the logs of two plants
C18_Witness ==
    /\ inflight["a"].pc = "done"
    /\ Len(plants["p1"].action_log) = 1 /\ plants["p1"].action_log[1].type = "trim"
    /\ Len(plants["p3"].action_log) = 1 /\ plants["p3"].action_log[1].type = "water"
    /\ xp["u1"] = 11 /\ xp["u2"] = 0

(* -------------------------------- C19 ---------------------------------- *)
\* C19: the growth_points of an adopted plant are a multiple of 10 in every
\* state (95 never occurs), so a plant changes stage on exactly the steps
\* that bring its points to 100, 250 or 500.
C19_PointsInTens ==
    /\ [](\A i \in DOMAIN plants :
             /\ plants[i].growth_points % 10 = 0
             /\ plants[i].growth_points # 95)
    /\ [][ \A i \in DOMAIN plants :
              plants'[i].stage # plants[i].stage
                 <=> /\ plants'[i].growth_points # plants[i].growth_points
                     /\ plants'[i].growth_points \in {100, 250, 500} ]_vars

\* p1 went from 90 to 100 points and became a sprout; p2 went from 490 over
\* 500, where it became mature, to 510
C19_Witness ==
    /\ clock = 4
    /\ plants["p1"].growth_points = 100 /\ plants["p1"].stage = "sprout"
    /\ plants["p2"].growth_points = 510 /\ plants["p2"].stage = "mature"

====
